---- MODULE Spec2Model ----
(***************************************************************************)
(* The calculator session of weak-calc-expert (the script of App.vue):     *)
(* the status machine, the expression editor, the token bucket with its    *)
(* refill interval and cooldown timeout, the two-stage expert pipeline     *)
(* (POST /api/llm, then POST /api/tts) and the key-sound player.           *)
(*                                                                         *)
(* Every handler runs to completion on the single event loop, so one       *)
(* action is one handler, or the part of handleEquals between two awaits.  *)
(* Strings of the expression are sequences of one-character strings.       *)
(***************************************************************************)
EXTENDS Integers, Sequences, FiniteSets, TLC

(***************************************************************************)
(* Bounds of the model.                                                    *)
(***************************************************************************)
\* longest expression the model types
MaxLen == 2
\* a response is outstanding while fewer than MaxLag newer evaluations are
\* admitted, so at most MaxLag calls of handleEquals are suspended at a time
MaxLag == 2
\* number of evaluations admitted in one run (trace ids 0 .. MaxTrace-1)
MaxTrace == 11
\* longest expression and number of evaluations of an editing session
MaxEditLen == 4
MaxEditTrace == 1

\* evaluations admitted in a session of LiveSpec
MaxLiveTrace == 1

(***************************************************************************)
(* Program constants.                                                      *)
(***************************************************************************)
initialTokens == 10
refillRate == 2
maxTokens == 10
consumePerCall == 1
cooldownOnEmpty == 5000
busySound == "/sfx/expert_busy.mp3"
busyText == "BUSY_TEXT"
DebounceWindow == 60
failedSound == "/sfx/expert_failed.mp3"
fallbackSound == "/sfx/keys/key_press.mp3"
equalsSound == "/sfx/keys/key_eq.mp3"
preloadTimeout == 5000
uiTextLoading == "LOADING_TEXT"
uiTextFailed == "FAILED_TEXT"

IDLE == "idle"
EDITING == "editing"
LOADING == "loading"
RESULT == "result"
FAILED == "failed"
STATUS == {IDLE, EDITING, LOADING, RESULT, FAILED}

\* JavaScript's undefined, for a field a response payload does not have
Undefined == "undefined"

\* what an entry of audioCache that does not exist plays
NoAudio == "none"

Operators == {"+", "-", "*", "/"}
\* the key the model presses in a session: the session's rules read the
\* expression only through its length
Keys == {"1"}
\* the keys of an editing session: two digits, the decimal point, an operator
EditKeys == {"3", "5", ".", "+"}

VARIABLES
    \* refs of the component
    status, expression, resultText, audioUrl, tokens, isRateLimited,
    \* time since lastSoundPlayTime, capped at DebounceWindow
    sinceLastSound,
    \* pending setTimeout callbacks of the rate-limit branch
    cooldownTimers,
    \* calls of handleEquals suspended at an await: of the fetch of the stage
    \* or, once that has resolved, of the json() of its response
    requests,
    \* the next value of crypto.randomUUID()
    nextTrace,
    \* the last handler (with the key pressed and the status and expression it
    \* found, or with the trace id of its request and whether the response is
    \* a failure of the stage), the sounds it played and the requests it sent
    event, sounds, sent,
    \* history: the busy notice on display was raised by a rejection in
    \* Editing and the user has pressed nothing since
    quiet,
    \* the paths of soundPaths that have no entry in audioCache
    uncached,
    \* the followed calls of preloadAudio that have a callback to come: the
    \* state of the media element, of the promise and of the timeout of each
    preloads,
    \* time since onMounted, capped at preloadTimeout
    sinceMounted,
    \* the await of Promise.all in onMounted has returned
    preloadFinished

vars == <<status, expression, resultText, audioUrl, tokens, isRateLimited,
          sinceLastSound, cooldownTimers, requests, nextTrace,
          event, sounds, sent, quiet,
          uncached, preloads, sinceMounted, preloadFinished>>

preloadVars == <<uncached, preloads, sinceMounted, preloadFinished>>

Min(a, b) == IF a < b THEN a ELSE b

(***************************************************************************)
(* Computed properties.                                                    *)
(***************************************************************************)
DisplayExpression(st, e) ==
    IF st = IDLE THEN <<"0">> ELSE IF e = <<>> THEN <<"0">> ELSE e

DisplayResult(rl, st, rt) ==
    IF rl THEN busyText
    ELSE IF st = LOADING THEN uiTextLoading
    ELSE IF st = FAILED THEN uiTextFailed
    ELSE IF st = RESULT THEN rt
    ELSE ""

IsLoading(st) == st = LOADING

IsEqualsDisabledNoLoading(st, rl) == rl

IsEqualsDisabled(st, rl) == st = LOADING \/ rl

CanInputAlways(st) == TRUE

CanInput(st) == st # LOADING

\* handleButtonClick returns before the sound and the action of the button
BlockedAlsoClear(st, key) == ~CanInput(st)

Blocked(st, key) == ~CanInput(st) /\ key # "clear"

(***************************************************************************)
(* The buttons, their sounds and the sounds that onMounted preloads.       *)
(***************************************************************************)
ButtonSound(key) ==
    CASE key = "clear" -> "/sfx/keys/key_clear.mp3"
      [] key = "backspace" -> "/sfx/keys/key_del.mp3"
      [] key = "/" -> "/sfx/keys/key_div.mp3"
      [] key = "*" -> "/sfx/keys/key_mul.mp3"
      [] key = "-" -> "/sfx/keys/key_minus.mp3"
      [] key = "+" -> "/sfx/keys/key_plus.mp3"
      [] key = "." -> "/sfx/keys/key_dot.mp3"
      [] key = "0" -> "/sfx/keys/key_0.mp3"
      [] key = "1" -> "/sfx/keys/key_1.mp3"
      [] key = "2" -> "/sfx/keys/key_2.mp3"
      [] key = "3" -> "/sfx/keys/key_3.mp3"
      [] key = "4" -> "/sfx/keys/key_4.mp3"
      [] key = "5" -> "/sfx/keys/key_5.mp3"
      [] key = "6" -> "/sfx/keys/key_6.mp3"
      [] key = "7" -> "/sfx/keys/key_7.mp3"
      [] key = "8" -> "/sfx/keys/key_8.mp3"
      [] key = "9" -> "/sfx/keys/key_9.mp3"
      [] OTHER -> equalsSound

Buttons == {"clear", "backspace", "/", "*", "7", "8", "9", "-", "4", "5", "6",
            "+", "1", "2", "3", "equals", "0", "."}

soundPaths == {ButtonSound(k) : k \in Buttons} \cup {busySound, failedSound, fallbackSound}

\* the paths that have an entry in audioCache
AudioCache == soundPaths \ uncached

(***************************************************************************)
(* playSound: the debounce of non-forced calls.  Only the difference       *)
(* now - lastSoundPlayTime is read, so the model keeps that difference.    *)
(***************************************************************************)
Debounced(force, since) == ~force /\ since < DebounceWindow

CachedAudioWithoutFallback(soundPath, cache) ==
    IF soundPath \in cache THEN soundPath ELSE NoAudio

\* the entry of the cache that playSound(soundPath) rewinds and plays
CachedAudio(soundPath, cache) ==
    IF soundPath \in cache THEN soundPath
    ELSE IF fallbackSound \in cache THEN fallbackSound
    ELSE NoAudio

PlayedByDebouncingForced(soundPath, force, since) ==
    IF since < DebounceWindow THEN <<>>
    ELSE <<[kind |-> "sfx", path |-> soundPath, force |-> force, since |-> since,
            heard |-> CachedAudio(soundPath, AudioCache)]>>

\* the sounds of one playSound call; the log of a sound says how long after
\* lastSoundPlayTime the call came and which entry of the cache it played
PlayedBy(soundPath, force, since) ==
    IF Debounced(force, since) THEN <<>>
    ELSE <<[kind |-> "sfx", path |-> soundPath, force |-> force, since |-> since,
            heard |-> CachedAudio(soundPath, AudioCache)]>>

SinceAfterPlay(force, since) == IF Debounced(force, since) THEN since ELSE 0

(***************************************************************************)
(* The expression editor.                                                  *)
(***************************************************************************)
\* the whole expression, as if it were not split at the operators
LastSegmentUnsplit(e) == e

RECURSIVE LastSegment(_)
\* segments[segments.length - 1] of expression.split(/[\+\-\*\/]/)
LastSegment(e) ==
    IF e = <<>> THEN <<>>
    ELSE IF e[Len(e)] \in Operators THEN <<>>
    ELSE Append(LastSegment(SubSeq(e, 1, Len(e) - 1)), e[Len(e)])

Includes(s, c) == \E i \in 1..Len(s) : s[i] = c

ResetsOnInputAfterResultOnly(st) == st = RESULT

\* handleInput calls clear() before it appends
ResetsOnInput(st) == st = RESULT \/ st = FAILED

\* the three branches of handleInput that write expression
Appended(e, key) ==
    IF key \in Operators THEN Append(e, key)
    ELSE IF key = "." THEN (IF ~Includes(LastSegment(e), ".") THEN Append(e, key) ELSE e)
    ELSE Append(e, key)

SlicedTwice(e) == IF Len(e) > 1 THEN SubSeq(e, 1, Len(e) - 2) ELSE <<>>

\* expression.slice(0, -1)
Sliced(e) == IF Len(e) > 0 THEN SubSeq(e, 1, Len(e) - 1) ELSE e

(***************************************************************************)
(* The token bucket.                                                       *)
(***************************************************************************)
RefilledUnclamped(t) == t + 1

RefilledBelowCeiling(t) == IF t < maxTokens - 1 THEN t + 1 ELSE t

Refilled(t) == IF t < maxTokens THEN Min(t + 1, maxTokens) ELSE t

AdmitsAlways(t) == TRUE

Admits(t) == ~(t < consumePerCall)

ConsumedTwice(t) == t - 2 * consumePerCall

Consumed(t) == t - consumePerCall

(***************************************************************************)
(* Responses of the two endpoints, as fetch delivers them.                 *)
(***************************************************************************)
LLMResponses ==
    { [transport |-> "error", ok |-> FALSE, display |-> Undefined, explanation |-> Undefined],
      [transport |-> "ok", ok |-> FALSE, display |-> Undefined, explanation |-> Undefined],
      [transport |-> "ok", ok |-> TRUE, display |-> Undefined, explanation |-> "e24"],
      [transport |-> "ok", ok |-> TRUE, display |-> "24", explanation |-> Undefined],
      [transport |-> "ok", ok |-> TRUE, display |-> "24", explanation |-> "e24"] }

TTSResponses ==
    { [transport |-> "error", ok |-> FALSE, dataUrl |-> Undefined],
      [transport |-> "ok", ok |-> FALSE, dataUrl |-> Undefined],
      [transport |-> "ok", ok |-> TRUE, dataUrl |-> Undefined],
      [transport |-> "ok", ok |-> TRUE, dataUrl |-> ""],
      [transport |-> "ok", ok |-> TRUE, dataUrl |-> "data:audio/mp3;base64,AA=="] }

LLMAcceptedWithoutExplanation(resp) ==
    /\ resp.transport = "ok"
    /\ resp.ok
    /\ resp.display # Undefined

\* the try block up to resultText.value = llmData.display does not throw
LLMAccepted(resp) ==
    /\ resp.transport = "ok"
    /\ resp.ok
    /\ ~(resp.display = Undefined \/ resp.explanation = Undefined)

\* the try block up to audioUrl.value = ttsData.dataUrl does not throw
TTSAccepted(resp) ==
    /\ resp.transport = "ok"
    /\ resp.ok
    /\ ~(resp.dataUrl = Undefined \/ resp.dataUrl = "")

(***************************************************************************)
(* History: the failures of the two stages as the specification lists      *)
(* them (unavailable: transport failure or non-success status; malformed:  *)
(* a payload without display or explanation, or without a dataUrl).  The   *)
(* log of a response says whether it is one of them; no handler reads it.  *)
(***************************************************************************)
GenerateFault(resp) ==
    \/ resp.transport = "error"
    \/ ~resp.ok
    \/ resp.display = Undefined
    \/ resp.explanation = Undefined

SynthesizeFault(resp) ==
    \/ resp.transport = "error"
    \/ ~resp.ok
    \/ resp.dataUrl = Undefined
    \/ resp.dataUrl = ""

(***************************************************************************)
(* The sound cache.  onMounted preloads soundPaths; the model follows the   *)
(* calls of preloadAudio for FollowedPaths and takes the other assets as    *)
(* buffered at once.  A call is followed as long as a callback of it is to  *)
(* come: an event of its media element or its timeout.                      *)
(***************************************************************************)
FollowedPaths == {ButtonSound("1"), ButtonSound("clear"), fallbackSound}

\* a call of preloadAudio right after new Promise(...) has run
Loading == [media |-> "loading", promise |-> "pending", timer |-> "armed"]

\* the calls of f that have a callback to come
Pending(f) ==
    [p \in {q \in DOMAIN f : f[q].media = "loading" \/ f[q].timer = "armed"} |-> f[p]]

\* every promise of the calls f is settled, so that Promise.all resolves and
\* onMounted resumes after its await
AllSettled(f) == \A p \in DOMAIN f : f[p].promise # "pending"

\* the state of the promise of the call of preloadAudio for p
Promise(p) ==
    IF p \in DOMAIN preloads THEN preloads[p].promise
    ELSE IF p \in AudioCache THEN "resolved" ELSE "rejected"

\* onMounted has run up to the await of Promise.all
PreloadStarted ==
    /\ uncached = FollowedPaths
    /\ preloads = [p \in FollowedPaths |-> Loading]
    /\ sinceMounted = 0
    /\ preloadFinished = FALSE

\* onMounted has returned, every asset was buffered and every timeout passed
Preloaded ==
    /\ uncached = {}
    /\ preloads = [p \in {} |-> Loading]
    /\ sinceMounted = preloadTimeout
    /\ preloadFinished = TRUE

(***************************************************************************)
(* Initial state: the refs as declared, no request, no timer, and the      *)
(* preload of onMounted finished with every sound in the cache (AudioSpec  *)
(* starts where the preload starts).                                       *)
(* lastSoundPlayTime starts at 0 and Date.now() is far beyond it, so the   *)
(* first key sound is not debounced.                                       *)
(***************************************************************************)
NoEvent == [name |-> "mounted"]

Init ==
    /\ status = IDLE
    /\ expression = <<>>
    /\ resultText = ""
    /\ audioUrl = ""
    /\ tokens = initialTokens
    /\ isRateLimited = FALSE
    /\ sinceLastSound = DebounceWindow
    /\ cooldownTimers = 0
    /\ requests = {}
    /\ nextTrace = 0
    /\ event = NoEvent
    /\ sounds = <<>>
    /\ sent = <<>>
    /\ quiet = FALSE
    /\ Preloaded

(***************************************************************************)
(* History: the field current of a suspended call says that it is the      *)
(* session's current request, the last one admitted with no clear() since. *)
(* The code keeps no such field and no handler reads it.  clear() is       *)
(* written in the handlers as the four values it leaves.                   *)
(***************************************************************************)
Superseded(rs) == { [r EXCEPT !.current = FALSE] : r \in rs }

\* handleButtonClick for a digit, operator or decimal-point button
PressKey(key) ==
    /\ UNCHANGED preloadVars
    /\ event' = [name |-> "key", key |-> key, from |-> status, before |-> expression]
    /\ sent' = <<>>
    /\ quiet' = FALSE
    /\ IF Blocked(status, key)
       THEN /\ sounds' = <<>>
            /\ UNCHANGED <<status, expression, resultText, audioUrl, sinceLastSound, requests>>
       ELSE /\ sounds' = PlayedBy(ButtonSound(key), FALSE, sinceLastSound)
            /\ sinceLastSound' = SinceAfterPlay(FALSE, sinceLastSound)
            /\ LET wasDone == ResetsOnInput(status)
                   base == IF wasDone THEN <<>> ELSE expression
               IN /\ expression' = Appended(base, key)
                  /\ resultText' = IF wasDone THEN "" ELSE resultText
                  /\ audioUrl' = IF wasDone THEN "" ELSE audioUrl
                  /\ requests' = IF wasDone THEN Superseded(requests) ELSE requests
                  /\ status' = EDITING
    /\ UNCHANGED <<tokens, isRateLimited, cooldownTimers, nextTrace>>

\* handleButtonClick for the backspace button
PressBackspace ==
    /\ UNCHANGED preloadVars
    /\ event' = [name |-> "backspace", before |-> expression]
    /\ sent' = <<>>
    /\ quiet' = FALSE
    /\ IF Blocked(status, "backspace")
       THEN /\ sounds' = <<>>
            /\ UNCHANGED <<status, expression, sinceLastSound>>
       ELSE /\ sounds' = PlayedBy(ButtonSound("backspace"), FALSE, sinceLastSound)
            /\ sinceLastSound' = SinceAfterPlay(FALSE, sinceLastSound)
            /\ expression' = Sliced(expression)
            /\ status' = IF Len(Sliced(expression)) = 0 THEN IDLE ELSE status
    /\ UNCHANGED <<resultText, audioUrl, tokens, isRateLimited, cooldownTimers,
                   requests, nextTrace>>

\* handleButtonClick for the clear button
PressClear ==
    /\ UNCHANGED preloadVars
    /\ event' = [name |-> "clear"]
    /\ sent' = <<>>
    /\ quiet' = FALSE
    /\ IF Blocked(status, "clear")
       THEN /\ sounds' = <<>>
            /\ UNCHANGED <<status, expression, resultText, audioUrl, sinceLastSound, requests>>
       ELSE /\ sounds' = PlayedBy(ButtonSound("clear"), FALSE, sinceLastSound)
            /\ sinceLastSound' = SinceAfterPlay(FALSE, sinceLastSound)
            /\ expression' = <<>>
            /\ resultText' = ""
            /\ audioUrl' = ""
            /\ status' = IDLE
            /\ requests' = Superseded(requests)
    /\ UNCHANGED <<tokens, isRateLimited, cooldownTimers, nextTrace>>

\* handleEquals returns at its first line
EqualsIgnored ==
    /\ UNCHANGED preloadVars
    /\ Len(expression) = 0 \/ IsEqualsDisabled(status, isRateLimited)
    /\ event' = [name |-> "equals_ignored"]
    /\ sounds' = <<>>
    /\ sent' = <<>>
    /\ quiet' = FALSE
    /\ UNCHANGED <<status, expression, resultText, audioUrl, tokens, isRateLimited,
                   sinceLastSound, cooldownTimers, requests, nextTrace>>

\* handleEquals, the rate-limit branch
EqualsRejected ==
    /\ UNCHANGED preloadVars
    /\ ~(Len(expression) = 0 \/ IsEqualsDisabled(status, isRateLimited))
    /\ ~Admits(tokens)
    /\ event' = [name |-> "equals_rejected"]
    /\ isRateLimited' = TRUE
    /\ status' = EDITING
    /\ resultText' = busyText
    /\ sounds' = PlayedBy(busySound, TRUE, sinceLastSound)
    /\ sinceLastSound' = SinceAfterPlay(TRUE, sinceLastSound)
    /\ cooldownTimers' = cooldownTimers + 1
    /\ sent' = <<>>
    /\ quiet' = (status = EDITING)
    /\ UNCHANGED <<expression, audioUrl, tokens, requests, nextTrace>>

\* handleEquals from the token check to the first await
EqualsAdmitted ==
    /\ UNCHANGED preloadVars
    /\ ~(Len(expression) = 0 \/ IsEqualsDisabled(status, isRateLimited))
    /\ Admits(tokens)
    /\ \A r \in requests : nextTrace - r.trace < MaxLag
    /\ nextTrace < MaxTrace
    /\ event' = [name |-> "equals_admitted", trace |-> nextTrace]
    /\ sounds' = PlayedBy(equalsSound, FALSE, sinceLastSound)
    /\ sinceLastSound' = SinceAfterPlay(FALSE, sinceLastSound)
    /\ tokens' = Consumed(tokens)
    /\ status' = LOADING
    /\ nextTrace' = nextTrace + 1
    /\ sent' = <<[url |-> "/api/llm", payload |-> expression, trace_id |-> nextTrace]>>
    /\ requests' = Superseded(requests) \cup
           {[trace |-> nextTrace, stage |-> "llm", fetched |-> FALSE,
             display |-> Undefined, explanation |-> Undefined, current |-> TRUE]}
    /\ quiet' = FALSE
    /\ UNCHANGED <<expression, resultText, audioUrl, isRateLimited, cooldownTimers>>

\* the setInterval callback of onMounted
RefillTick ==
    /\ UNCHANGED preloadVars
    /\ event' = [name |-> "refill"]
    /\ tokens' = Refilled(tokens)
    /\ sounds' = <<>>
    /\ sent' = <<>>
    /\ UNCHANGED <<status, expression, resultText, audioUrl, isRateLimited,
                   sinceLastSound, cooldownTimers, requests, nextTrace, quiet>>

\* the setTimeout callback of the rate-limit branch
CooldownFire ==
    /\ UNCHANGED preloadVars
    /\ cooldownTimers > 0
    /\ event' = [name |-> "cooldown"]
    /\ cooldownTimers' = cooldownTimers - 1
    /\ isRateLimited' = FALSE
    /\ resultText' = IF status # RESULT /\ status # FAILED THEN "" ELSE resultText
    /\ sounds' = <<>>
    /\ sent' = <<>>
    /\ quiet' = FALSE
    /\ UNCHANGED <<status, expression, audioUrl, tokens, sinceLastSound, requests,
                   nextTrace>>

FailureKeepsPending(r) ==
    /\ UNCHANGED status
    /\ sounds' = PlayedBy(failedSound, TRUE, sinceLastSound)
    /\ sinceLastSound' = SinceAfterPlay(TRUE, sinceLastSound)
    /\ sent' = <<>>
    /\ requests' = requests \ {r}

\* the catch block of handleEquals
Failure(r) ==
    /\ status' = FAILED
    /\ sounds' = PlayedBy(failedSound, TRUE, sinceLastSound)
    /\ sinceLastSound' = SinceAfterPlay(TRUE, sinceLastSound)
    /\ sent' = <<>>
    /\ requests' = requests \ {r}

\* the fetch resolves with a response whose ok is true
Fetched(resp) == resp.transport = "ok" /\ resp.ok

\* handleEquals resumes after the fetch of /api/llm: it throws, or goes on
\* to await llmResponse.json()
LLMFetched(r, resp) ==
    /\ UNCHANGED preloadVars
    /\ r \in requests
    /\ r.stage = "llm"
    /\ ~r.fetched
    /\ IF Fetched(resp)
       THEN /\ event' = [name |-> "llm_fetched", trace |-> r.trace]
            /\ requests' = (requests \ {r}) \cup {[r EXCEPT !.fetched = TRUE]}
            /\ sounds' = <<>>
            /\ sent' = <<>>
            /\ UNCHANGED <<status, sinceLastSound>>
       ELSE /\ event' = [name |-> "llm_response", trace |-> r.trace,
                         fault |-> GenerateFault(resp)]
            /\ Failure(r)
    /\ UNCHANGED <<expression, resultText, audioUrl, tokens, isRateLimited,
                   cooldownTimers, nextTrace, quiet>>

\* handleEquals resumes after llmResponse.json()
LLMResponse(r, resp) ==
    /\ UNCHANGED preloadVars
    /\ r \in requests
    /\ r.stage = "llm"
    /\ r.fetched
    /\ Fetched(resp)
    /\ event' = [name |-> "llm_response", trace |-> r.trace, fault |-> GenerateFault(resp)]
    /\ IF LLMAccepted(resp)
       THEN /\ resultText' = resp.display
            /\ sent' = <<[url |-> "/api/tts", payload |-> resp.explanation,
                          trace_id |-> r.trace]>>
            /\ requests' = (requests \ {r}) \cup
                   {[r EXCEPT !.stage = "tts", !.fetched = FALSE,
                              !.display = resp.display,
                              !.explanation = resp.explanation]}
            /\ sounds' = <<>>
            /\ UNCHANGED <<status, sinceLastSound>>
       ELSE /\ Failure(r)
            /\ UNCHANGED resultText
    /\ UNCHANGED <<expression, audioUrl, tokens, isRateLimited, cooldownTimers,
                   nextTrace, quiet>>

\* handleEquals resumes after the fetch of /api/tts: it throws, or goes on
\* to await ttsResponse.json()
TTSFetched(r, resp) ==
    /\ UNCHANGED preloadVars
    /\ r \in requests
    /\ r.stage = "tts"
    /\ ~r.fetched
    /\ IF Fetched(resp)
       THEN /\ event' = [name |-> "tts_fetched", trace |-> r.trace]
            /\ requests' = (requests \ {r}) \cup {[r EXCEPT !.fetched = TRUE]}
            /\ sounds' = <<>>
            /\ sent' = <<>>
            /\ UNCHANGED <<status, sinceLastSound>>
       ELSE /\ event' = [name |-> "tts_response", trace |-> r.trace,
                         fault |-> SynthesizeFault(resp)]
            /\ Failure(r)
    /\ UNCHANGED <<expression, resultText, audioUrl, tokens, isRateLimited,
                   cooldownTimers, nextTrace, quiet>>

\* handleEquals resumes after ttsResponse.json()
TTSResponse(r, resp) ==
    /\ UNCHANGED preloadVars
    /\ r \in requests
    /\ r.stage = "tts"
    /\ r.fetched
    /\ Fetched(resp)
    /\ event' = [name |-> "tts_response", trace |-> r.trace, fault |-> SynthesizeFault(resp)]
    /\ IF TTSAccepted(resp)
       THEN /\ audioUrl' = resp.dataUrl
            /\ status' = RESULT
            /\ sounds' = <<[kind |-> "result", path |-> resp.dataUrl, force |-> TRUE]>>
            /\ sent' = <<>>
            /\ requests' = requests \ {r}
            /\ UNCHANGED sinceLastSound
       ELSE /\ Failure(r)
            /\ UNCHANGED audioUrl
    /\ UNCHANGED <<expression, resultText, tokens, isRateLimited, cooldownTimers,
                   nextTrace, quiet>>

\* time passes between two events
TimeSteps == {DebounceWindow}

Advance(d) ==
    /\ sinceLastSound < DebounceWindow \/ sinceMounted < preloadTimeout
    /\ sinceLastSound' = Min(sinceLastSound + d, DebounceWindow)
    /\ sinceMounted' = Min(sinceMounted + d, preloadTimeout)
    /\ UNCHANGED <<uncached, preloads, preloadFinished>>
    /\ event' = [name |-> "time"]
    /\ sounds' = <<>>
    /\ sent' = <<>>
    /\ UNCHANGED <<status, expression, resultText, audioUrl, tokens, isRateLimited,
                   cooldownTimers, requests, nextTrace, quiet>>

CanPlayThroughAlwaysCached(p) ==
    /\ p \in DOMAIN preloads
    /\ preloads[p].media = "loading"
    /\ event' = [name |-> "canplaythrough", path |-> p, cached |-> TRUE]
    /\ preloads' = Pending([preloads EXCEPT
                              ![p].media = "canplaythrough",
                              ![p].promise = IF @ = "pending" THEN "resolved" ELSE @])
    /\ uncached' = uncached \ {p}
    /\ sounds' = <<>>
    /\ sent' = <<>>
    /\ UNCHANGED <<status, expression, resultText, audioUrl, tokens, isRateLimited,
                   sinceLastSound, cooldownTimers, requests, nextTrace, quiet,
                   sinceMounted>>
    /\ preloadFinished' = (preloadFinished \/ AllSettled(preloads'))

\* the canplaythrough listener of preloadAudio, then the .then of onMounted
\* and, when this was the last promise to settle, the rest of onMounted.
\* The event records whether the .then ran, that is, whether
\* audioCache.value[path] was assigned the Audio object of this call.
CanPlayThrough(p) ==
    /\ p \in DOMAIN preloads
    /\ preloads[p].media = "loading"
    /\ event' = [name |-> "canplaythrough", path |-> p,
                 cached |-> preloads[p].promise = "pending"]
    /\ IF preloads[p].promise = "pending"
       THEN /\ preloads' = Pending([preloads EXCEPT ![p].media = "canplaythrough",
                                                    ![p].promise = "resolved"])
            /\ uncached' = uncached \ {p}
       ELSE /\ preloads' = Pending([preloads EXCEPT ![p].media = "canplaythrough"])
            /\ UNCHANGED uncached
    /\ sounds' = <<>>
    /\ sent' = <<>>
    /\ UNCHANGED <<status, expression, resultText, audioUrl, tokens, isRateLimited,
                   sinceLastSound, cooldownTimers, requests, nextTrace, quiet,
                   sinceMounted>>
    /\ preloadFinished' = (preloadFinished \/ AllSettled(preloads'))

\* the error listener of preloadAudio, then the .catch of onMounted and,
\* when this was the last promise to settle, the rest of onMounted
LoadError(p) ==
    /\ p \in DOMAIN preloads
    /\ preloads[p].media = "loading"
    /\ event' = [name |-> "error", path |-> p]
    /\ preloads' = Pending([preloads EXCEPT
                              ![p].media = "error",
                              ![p].promise = IF @ = "pending" THEN "rejected" ELSE @])
    /\ sounds' = <<>>
    /\ sent' = <<>>
    /\ UNCHANGED <<status, expression, resultText, audioUrl, tokens, isRateLimited,
                   sinceLastSound, cooldownTimers, requests, nextTrace, quiet,
                   uncached, sinceMounted>>
    /\ preloadFinished' = (preloadFinished \/ AllSettled(preloads'))

\* the setTimeout callback of preloadAudio, then the .catch of onMounted
\* and, when this was the last promise to settle, the rest of onMounted
LoadTimeout(p) ==
    /\ p \in DOMAIN preloads
    /\ preloads[p].timer = "armed"
    /\ sinceMounted = preloadTimeout
    /\ event' = [name |-> "timeout", path |-> p]
    /\ preloads' = Pending([preloads EXCEPT
                              ![p].timer = "done",
                              ![p].promise = IF @ = "pending" THEN "rejected" ELSE @])
    /\ sounds' = <<>>
    /\ sent' = <<>>
    /\ UNCHANGED <<status, expression, resultText, audioUrl, tokens, isRateLimited,
                   sinceLastSound, cooldownTimers, requests, nextTrace, quiet,
                   uncached, sinceMounted>>
    /\ preloadFinished' = (preloadFinished \/ AllSettled(preloads'))

Next ==
    \/ \E key \in Keys : PressKey(key) /\ Len(expression') <= MaxLen
    \/ PressBackspace
    \/ PressClear
    \/ EqualsIgnored
    \/ EqualsRejected
    \/ EqualsAdmitted
    \/ RefillTick
    \/ CooldownFire
    \/ \E r \in requests : \E resp \in LLMResponses : LLMFetched(r, resp)
    \/ \E r \in requests : \E resp \in LLMResponses : LLMResponse(r, resp)
    \/ \E r \in requests : \E resp \in TTSResponses : TTSFetched(r, resp)
    \/ \E r \in requests : \E resp \in TTSResponses : TTSResponse(r, resp)
    \/ \E d \in TimeSteps : Advance(d)

Spec == Init /\ [][Next]_vars

(***************************************************************************)
(* An editing session: every kind of key, longer expressions, and at most  *)
(* MaxEditTrace evaluations, within one refill interval.                   *)
(***************************************************************************)
EditNext ==
    \/ \E key \in EditKeys : PressKey(key) /\ Len(expression') <= MaxEditLen
    \/ PressBackspace
    \/ PressClear
    \/ EqualsIgnored
    \/ EqualsAdmitted /\ nextTrace < MaxEditTrace
    \/ \E r \in requests : \E resp \in LLMResponses : LLMFetched(r, resp)
    \/ \E r \in requests : \E resp \in LLMResponses : LLMResponse(r, resp)
    \/ \E r \in requests : \E resp \in TTSResponses : TTSFetched(r, resp)
    \/ \E r \in requests : \E resp \in TTSResponses : TTSResponse(r, resp)
    \/ \E d \in TimeSteps : Advance(d)

EditSpec == Init /\ [][EditNext]_vars

(***************************************************************************)
(* The session under the scheduling the runtime guarantees.  The interval   *)
(* timer of onMounted is never cleared, so its callback keeps firing; a     *)
(* pending setTimeout fires; a fetch that was started settles, with a       *)
(* response or a rejection (both are in LLMResponses and TTSResponses), and *)
(* the json() of a response that was fetched settles too.                   *)
(* The user is under no obligation.  A session is taken up at any token     *)
(* count of the bucket, with its calls labelled from 0.  The clock of the   *)
(* sound debounce plays no part here and is left where the keys put it.     *)
(***************************************************************************)
\* the period of the interval timer of onMounted
refillInterval == 60000 \div refillRate

LiveInit ==
    /\ status = IDLE
    /\ expression = <<>>
    /\ resultText = ""
    /\ audioUrl = ""
    /\ tokens \in 0..maxTokens
    /\ isRateLimited = FALSE
    /\ sinceLastSound = DebounceWindow
    /\ cooldownTimers = 0
    /\ requests = {}
    /\ nextTrace = 0
    /\ event = NoEvent
    /\ sounds = <<>>
    /\ sent = <<>>
    /\ quiet = FALSE
    /\ Preloaded

GenerateFetched == \E r \in requests : \E resp \in LLMResponses : LLMFetched(r, resp)

GenerateSettles == \E r \in requests : \E resp \in LLMResponses : LLMResponse(r, resp)

SynthesizeFetched == \E r \in requests : \E resp \in TTSResponses : TTSFetched(r, resp)

SynthesizeSettles == \E r \in requests : \E resp \in TTSResponses : TTSResponse(r, resp)

LiveNext ==
    \/ \E key \in Keys : PressKey(key) /\ Len(expression') <= MaxLen
    \/ PressBackspace
    \/ PressClear
    \/ EqualsIgnored
    \/ EqualsRejected
    \/ EqualsAdmitted /\ nextTrace < MaxLiveTrace
    \/ RefillTick
    \/ CooldownFire
    \/ GenerateFetched
    \/ GenerateSettles
    \/ SynthesizeFetched
    \/ SynthesizeSettles

LiveSpec ==
    /\ LiveInit
    /\ [][LiveNext]_vars
    /\ WF_vars(RefillTick)
    /\ WF_vars(CooldownFire)
    /\ WF_vars(GenerateFetched)
    /\ WF_vars(GenerateSettles)
    /\ WF_vars(SynthesizeFetched)
    /\ WF_vars(SynthesizeSettles)

(***************************************************************************)
(* The preload of the sounds, from the moment onMounted has started it,     *)
(* with the keys of an idle session pressed meanwhile.  Time passes and a   *)
(* timeout that is due fires; a media element owes no event.  The callback *)
(* that settles the last promise runs the rest of onMounted in its task.   *)
(***************************************************************************)
AudioInit ==
    /\ status = IDLE
    /\ expression = <<>>
    /\ resultText = ""
    /\ audioUrl = ""
    /\ tokens = initialTokens
    /\ isRateLimited = FALSE
    /\ sinceLastSound = DebounceWindow
    /\ cooldownTimers = 0
    /\ requests = {}
    /\ nextTrace = 0
    /\ event = NoEvent
    /\ sounds = <<>>
    /\ sent = <<>>
    /\ quiet = FALSE
    /\ PreloadStarted

\* time passes in halves of the timeout of preloadAudio
PreloadTimeSteps == {preloadTimeout \div 2}

TimePasses == \E d \in PreloadTimeSteps : Advance(d)

AudioNext ==
    \/ \E p \in FollowedPaths : CanPlayThrough(p)
    \/ \E p \in FollowedPaths : LoadError(p)
    \/ \E p \in FollowedPaths : LoadTimeout(p)
    \/ \E key \in Keys : PressKey(key) /\ Len(expression') <= MaxLen
    \/ PressClear
    \/ TimePasses

AudioSpec ==
    /\ AudioInit
    /\ [][AudioNext]_vars
    /\ WF_vars(TimePasses)
    /\ \A p \in FollowedPaths : WF_vars(LoadTimeout(p))

TypeOK ==
    /\ status \in STATUS
    /\ tokens \in Int
    /\ isRateLimited \in BOOLEAN
    /\ cooldownTimers \in 0..1
    /\ Len(expression) <= MaxLen
    /\ Cardinality(requests) <= MaxLag

(***************************************************************************)
(* Vocabulary of the properties.                                           *)
(***************************************************************************)
\* this step is handleEquals resuming for request r
Completes(r) ==
    /\ r \in requests
    /\ event'.name \in {"llm_response", "tts_response"}
    /\ event'.trace = r.trace

SessionUnchanged ==
    /\ status' = status
    /\ expression' = expression
    /\ resultText' = resultText
    /\ audioUrl' = audioUrl

Cleared ==
    /\ status = IDLE
    /\ expression = <<>>
    /\ resultText = ""
    /\ audioUrl = ""

\* C1: a request that was pending when clear was pressed completes later
\* (either response, success or failure) while the session is still as clear
\* left it: the mode stays Idle, expression, resultText and audioUrl stay
\* empty and no sound is played.
C1_StaleCompletionAfterClearDiscarded ==
    [][\A r \in requests :
         (Completes(r) /\ ~r.current /\ Cleared) => (Cleared' /\ sounds' = <<>>)]_vars

\* C2: the responses of a request that is no longer the session's current
\* one (a clear or a newer admission came after its admission) never modify
\* status, expression, resultText or audioUrl and play no sound.
C2_OnlyCurrentRequestApplies ==
    [][\A r \in requests :
         (Completes(r) /\ ~r.current) => (SessionUnchanged /\ sounds' = <<>>)]_vars

\* C3: the expression is empty exactly when the mode is Idle.
C3_EmptyIffIdle == (expression = <<>>) <=> (status = IDLE)

\* C4: the token count is an integer between 0 and maxTokens.
C4_TokensInRange == tokens \in 0..maxTokens

\* C4 witness: the tenth admission has drained the bucket
C4_Drained == tokens = 0 /\ event.name = "equals_admitted" /\ status = LOADING

\* this step is an admission: the session enters Pending
Admission == event'.name = "equals_admitted" \/ (status # LOADING /\ status' = LOADING)

AdmissionEffect ==
    /\ expression # <<>>
    /\ tokens >= consumePerCall
    /\ tokens' = tokens - consumePerCall
    /\ status' = LOADING
    /\ Len(sent') = 1
    /\ sent'[1].url = "/api/llm"

\* C5 as stated: an evaluation is admitted only from Editing, with a
\* non-empty expression and tokens >= consumePerCall, and the admission
\* takes exactly consumePerCall tokens and dispatches the generate request.
C5_AdmittedOnlyFromEditing ==
    [][Admission => (status = EDITING /\ AdmissionEffect)]_vars

\* C5 amended: an evaluation is admitted only from Editing, Resolved or
\* Failed, with a non-empty expression and tokens >= consumePerCall; the
\* admission takes exactly consumePerCall tokens and dispatches the generate
\* request; no evaluation is admitted from Idle or Pending.
C5_AdmittedOnlyWhenEnabled ==
    [][Admission => (status \in {EDITING, RESULT, FAILED} /\ AdmissionEffect)]_vars

\* C5 witness: an evaluation has just been admitted and paid for
C5_JustAdmitted ==
    /\ event.name = "equals_admitted"
    /\ status = LOADING
    /\ tokens = initialTokens - consumePerCall
    /\ Len(sent) = 1

\* C6: tokens changes only in a refill tick, by +1, and in an admission, by
\* -consumePerCall; keys, backspace, clear, an ignored or rejected evaluate,
\* every response and the cooldown timer leave it unchanged.
C6_TokensFrame ==
    [][tokens' # tokens =>
         \/ event'.name = "refill" /\ tokens' = tokens + 1
         \/ event'.name = "equals_admitted" /\ tokens' = tokens - consumePerCall]_vars

\* C6 witness: an evaluation has failed and its token was not given back
C6_FailedKeepsTokenSpent ==
    /\ event.name = "llm_response"
    /\ status = FAILED
    /\ tokens = initialTokens - consumePerCall

\* C7: a rejected evaluate changes neither the mode, nor the expression,
\* nor audioUrl, nor tokens, and sends no request.
C7_RejectionChangesNoState ==
    [][event'.name = "equals_rejected" =>
         /\ status' = status
         /\ expression' = expression
         /\ audioUrl' = audioUrl
         /\ tokens' = tokens
         /\ sent' = <<>>]_vars

\* C8 (scenario C): a rejection in Editing shows the busy string at once and
\* plays the busy sound; when the cooldown timer fires and the user has
\* pressed nothing since, the busy string is gone, the result display is
\* empty and the mode is still Editing.
C8_BusyNoticeScenario ==
    [][/\ (event'.name = "equals_rejected" /\ status = EDITING) =>
            /\ DisplayResult(isRateLimited', status', resultText') = busyText
            /\ sounds' = <<[kind |-> "sfx", path |-> busySound, force |-> TRUE,
                            since |-> sinceLastSound, heard |-> busySound]>>
            /\ status' = EDITING
       /\ (event'.name = "cooldown" /\ quiet) =>
            /\ ~isRateLimited'
            /\ DisplayResult(isRateLimited', status', resultText') = ""
            /\ status' = EDITING]_vars

\* C9: the cooldown timer empties resultText only when resultText still
\* holds the busy notice; anything written since is left as it is.
C9_CooldownKeepsNewerText ==
    [][(event'.name = "cooldown" /\ resultText # busyText) =>
         resultText' = resultText]_vars

\* C10: the mode is Resolved only with the display string and the audio of
\* the request that resolved: on entering Resolved both belong to the
\* request whose synthesize response is handled, and while the mode stays
\* Resolved neither is replaced.
C10_NoPartialSuccess ==
    [][status' = RESULT =>
         IF event'.name = "tts_response"
         THEN \E r \in requests :
                /\ Completes(r)
                /\ r.stage = "tts"
                /\ resultText' = r.display
                /\ audioUrl' # ""
                /\ sounds' = <<[kind |-> "result", path |-> audioUrl', force |-> TRUE]>>
         ELSE /\ status = RESULT
              /\ resultText' = resultText
              /\ audioUrl' = audioUrl]_vars

\* this step is handleEquals resuming with a failure of the stage
Fails(r) == Completes(r) /\ event'.fault

\* C11: every failure of the current request (generate or synthesize:
\* transport failure, non-success status, payload without display,
\* explanation or dataUrl) ends with the mode Failed and with the result
\* string shown to the user equal to the fixed apology string.
C11_FailureShowsApology ==
    [][\A r \in requests :
         (Fails(r) /\ r.current) =>
             /\ status' = FAILED
             /\ DisplayResult(isRateLimited', status', resultText') = uiTextFailed]_vars

\* C12: a synthesize request is sent only in the step that handles a generate
\* response with success status, display and explanation, of an evaluation
\* whose generate response was not handled before; it carries that
\* explanation and the trace id of the evaluation.  A failed generate stage
\* sends nothing and ends the evaluation.  The trace id of an admission is
\* the id of no other evaluation.
C12_StagesOrdered ==
    [][/\ \A i \in 1..Len(sent') :
            sent'[i].url = "/api/tts" =>
                /\ event'.name = "llm_response"
                /\ ~event'.fault
                /\ sent'[i].payload # Undefined
                /\ sent'[i].trace_id = event'.trace
                /\ \E r \in requests : r.trace = event'.trace /\ r.stage = "llm"
                /\ \E q \in requests' :
                       /\ q.trace = event'.trace
                       /\ q.stage = "tts"
                       /\ q.display # Undefined
                       /\ q.explanation = sent'[i].payload
       /\ (event'.name = "llm_response" /\ event'.fault) =>
            /\ sent' = <<>>
            /\ \A q \in requests' : q.trace # event'.trace
       /\ event'.name = "equals_admitted" =>
            /\ sent' = <<[url |-> "/api/llm", payload |-> expression,
                          trace_id |-> event'.trace]>>
            /\ \A r \in requests : r.trace # event'.trace
            /\ event'.trace >= nextTrace
            /\ nextTrace' > event'.trace
       /\ \A q \in requests' : q.trace < nextTrace']_vars

\* C12 witness: the generate response was accepted and the synthesize
\* request left with its explanation
C12_SynthesizeSent ==
    /\ event.name = "llm_response"
    /\ sent = <<[url |-> "/api/tts", payload |-> "e24", trace_id |-> event.trace]>>
    /\ resultText = "24"

\* C13: while the mode is Pending a digit, operator, decimal point,
\* backspace or evaluate leaves expression, resultText, audioUrl, the mode
\* and tokens unchanged, plays no sound and sends nothing; clear takes effect.
C13_PendingInputLocked ==
    [][status = LOADING =>
         /\ event'.name \in {"key", "backspace", "equals_ignored", "equals_rejected",
                              "equals_admitted"} =>
                /\ SessionUnchanged
                /\ tokens' = tokens
                /\ sounds' = <<>>
                /\ sent' = <<>>
         /\ event'.name = "clear" => Cleared']_vars

\* C13 witness: an operator was pressed while the evaluation was pending,
\* long enough after the last sound for a key sound to be due
C13_OperatorWhilePending ==
    /\ status = LOADING
    /\ event.name = "key"
    /\ event.key = "+"
    /\ expression = <<"3", "+", "5">>
    /\ sinceLastSound = DebounceWindow

\* C14: clear always gives the mode Idle with expression, resultText and
\* audioUrl empty, and a second clear right after a clear changes nothing.
C14_ClearResets ==
    [][event'.name = "clear" =>
         /\ Cleared'
         /\ event.name = "clear" =>
                /\ SessionUnchanged
                /\ tokens' = tokens
                /\ isRateLimited' = isRateLimited
                /\ sinceLastSound' = sinceLastSound]_vars

\* C14 witness: clear was pressed during a busy notice with a request
\* outstanding
C14_ClearedWhileBusy ==
    /\ event.name = "clear"
    /\ Cleared
    /\ isRateLimited
    /\ requests # {}

\* the substring of e after its last operator contains a decimal point
PointAfterLastOperator(e) ==
    \E i \in 1..Len(e) :
        /\ e[i] = "."
        /\ \A j \in (i + 1)..Len(e) : e[j] \notin Operators

\* C15: in Idle or Editing a digit or an operator is appended to the
\* expression, and a decimal point is appended if and only if the substring
\* after the last operator contains no decimal point; a rejected decimal
\* point leaves the expression unchanged.  The expression after a sequence of
\* keystrokes is therefore the prior expression followed by the accepted
\* ones in order.
C15_AcceptedKeystrokesInOrder ==
    [][(event'.name = "key" /\ status \in {IDLE, EDITING}) =>
         expression' = IF event'.key = "." /\ PointAfterLastOperator(expression)
                       THEN expression
                       ELSE Append(expression, event'.key)]_vars

\* C15 witness (scenario D): after 3 . 5 the second decimal point was
\* rejected and the expression is still "3.5"
C15_SecondPointRejected ==
    /\ event.name = "key"
    /\ event.key = "."
    /\ event.from = EDITING
    /\ event.before = <<"3", ".", "5">>
    /\ expression = <<"3", ".", "5">>

\* the keystroke logged in ev was appended by handleInput
Accepted(ev) ==
    \/ ev.key # "."
    \/ ~PointAfterLastOperator(IF ev.from \in {RESULT, FAILED} THEN <<>> ELSE ev.before)

\* C16 as stated: in Idle, Editing, Resolved and Failed, a backspace right
\* after an accepted keystroke leaves the expression as it was before the
\* keystroke.
C16_BackspaceUndoesAppend ==
    [][(/\ event.name = "key"
        /\ event.from \in {IDLE, EDITING, RESULT, FAILED}
        /\ Accepted(event)
        /\ event'.name = "backspace") =>
         expression' = event.before]_vars

\* C16 amended: in Idle and Editing, a backspace right after an accepted
\* keystroke leaves the expression as it was before the keystroke; in
\* Resolved and Failed the keystroke first resets the session, and the
\* backspace after it leaves the expression empty and the mode Idle.
C16_BackspaceUndoesAppendWhileEditing ==
    [][(/\ event.name = "key"
        /\ event.from \in {IDLE, EDITING, RESULT, FAILED}
        /\ Accepted(event)
        /\ event'.name = "backspace") =>
         IF event.from \in {IDLE, EDITING}
         THEN expression' = event.before
         ELSE expression' = <<>> /\ status' = IDLE]_vars

\* C16 witness: backspace has removed the last character of "3+5"
C16_BackspaceDone ==
    /\ event.name = "backspace"
    /\ event.before = <<"3", "+", "5">>
    /\ expression = <<"3", "+">>
    /\ status = EDITING

\* this step is a handler that makes a non-forced playSound call
KeySoundCall ==
    \/ event'.name = "clear"
    \/ event'.name \in {"key", "backspace"} /\ CanInput(status)
    \/ event'.name = "equals_admitted"

\* the last step played exactly the sound s
JustPlayed(s) == sounds = <<s>> /\ s.kind = "sfx"

\* C17: a non-forced play call is suppressed, without changing the debounce
\* timestamp, when it comes less than DebounceWindow after a non-forced call
\* that produced sound; it is not suppressed when no sound at all was played
\* in the last DebounceWindow time units, nor when the only sound played in
\* that time was a forced one.
C17_DebounceOnlyAfterKeySounds ==
    [][KeySoundCall =>
         /\ (\E s \in {sounds[i] : i \in 1..Len(sounds)} : JustPlayed(s) /\ ~s.force) =>
                (sounds' = <<>> /\ sinceLastSound' = sinceLastSound)
         /\ sinceLastSound = DebounceWindow => sounds' # <<>>
         /\ (\E s \in {sounds[i] : i \in 1..Len(sounds)} :
                 JustPlayed(s) /\ s.force /\ s.since = DebounceWindow) =>
                sounds' # <<>>]_vars

\* C18: every admission plays the acknowledgement sound, every rejection
\* the busy sound and every pipeline failure the failure sound, whatever the
\* time since the previous sound.
C18_EvaluateSoundsForced ==
    [][/\ event'.name = "equals_admitted" =>
            (Len(sounds') = 1 /\ sounds'[1].path = equalsSound)
       /\ event'.name = "equals_rejected" =>
            (Len(sounds') = 1 /\ sounds'[1].path = busySound)
       /\ (event'.name \in {"llm_response", "tts_response"} /\ event'.fault) =>
            (Len(sounds') = 1 /\ sounds'[1].path = failedSound)]_vars

\* the sounds of the two terminal transitions
IsResultSound(s) == s.kind = "result"

IsFailureSound(s) == s.kind = "sfx" /\ s.path = failedSound

\* C19: a step that enters Resolved plays exactly one sound, the audio of
\* the synthesize response it handles, and a step that enters Failed plays
\* exactly one sound, the failure sound; such a sound is played only by the
\* step that ends an evaluation, which has no later step, and never both in
\* one step.
C19_TerminalSoundOnce ==
    [][/\ (status' = RESULT /\ status # RESULT) =>
            (Len(sounds') = 1 /\ IsResultSound(sounds'[1]))
       /\ (status' = FAILED /\ status # FAILED) =>
            (Len(sounds') = 1 /\ IsFailureSound(sounds'[1]))
       /\ \A i \in 1..Len(sounds') :
            (IsResultSound(sounds'[i]) \/ IsFailureSound(sounds'[i])) =>
                /\ Len(sounds') = 1
                /\ status' = IF IsResultSound(sounds'[i]) THEN RESULT ELSE FAILED
                /\ IsResultSound(sounds'[i]) =>
                       (sounds'[i].path = audioUrl' /\ ~event'.fault)
                /\ \E r \in requests :
                       /\ Completes(r)
                       /\ \A q \in requests' : q.trace # r.trace
                       /\ r.trace < nextTrace']_vars

\* C19 witness: the synthesize stage failed shortly after a key sound and
\* the failure sound was played once, over the display string of the request
C19_FailedOnce ==
    /\ event.name = "tts_response"
    /\ status = FAILED
    /\ Len(sounds) = 1
    /\ IsFailureSound(sounds[1])
    /\ sounds[1].since < DebounceWindow
    /\ resultText = "24"

\* C20: an admission, a rejection and a clear leave no audioUrl, and the
\* session holds none while the mode is Pending or Failed.
C20_AudioDiscarded ==
    [][(\/ event'.name \in {"equals_admitted", "equals_rejected", "clear"}
        \/ status' \in {LOADING, FAILED}) =>
         audioUrl' = ""]_vars

\* C24: a digit, operator or decimal point pressed in Resolved or Failed
\* leaves the mode Editing, resultText and audioUrl empty and the expression
\* equal to the one key just typed.
C24_ResetOnNewInput ==
    [][(event'.name = "key" /\ status \in {RESULT, FAILED}) =>
         /\ status' = EDITING
         /\ resultText' = ""
         /\ audioUrl' = ""
         /\ expression' = <<event'.key>>]_vars

\* C24 witness: a decimal point was typed over the failed evaluation of "3+"
C24_TypedOverFailure ==
    /\ event.name = "key"
    /\ event.key = "."
    /\ event.from = FAILED
    /\ event.before = <<"3", "+">>
    /\ expression = <<".">>
    /\ status = EDITING

\* C25: whenever the mode is Idle the expression display shows "0" and the
\* result display is empty, also after a clear that follows a rejection and
\* precedes the cooldown timer.
C25_IdleDisplayNeutral ==
    status = IDLE =>
        /\ DisplayExpression(status, expression) = <<"0">>
        /\ DisplayResult(isRateLimited, status, resultText) = ""

\* C26: while the mode stays Resolved and resultText keeps the display
\* string of the request that resolved, the expression stays the one that
\* was sent for it: no backspace, rejected evaluate or stale completion
\* changes the expression under the result.
C26_ExpressionKeptUnderResult ==
    [][(status = RESULT /\ status' = RESULT /\ resultText' = resultText) =>
         expression' = expression]_vars

\* C21: a tick of the refill timer (period refillInterval = 60000 / refillRate),
\* in whatever state the session is, sets the tokens to min(tokens + 1,
\* maxTokens) and changes nothing else of the session; and if from some point
\* on no evaluation is admitted any more, the tokens reach maxTokens and stay
\* there.
C21_RefillReachesCeiling ==
    /\ refillInterval * refillRate = 60000
    /\ [][event'.name = "refill" =>
            /\ tokens' = Min(tokens + 1, maxTokens)
            /\ UNCHANGED <<status, expression, resultText, audioUrl, isRateLimited,
                           cooldownTimers, requests, nextTrace>>]_vars
    /\ (<>[][event'.name # "equals_admitted"]_vars) => <>[](tokens = maxTokens)

C21_RefilledWhileBusy ==
    event.name = "refill" /\ isRateLimited /\ status = EDITING /\ tokens = 1

\* C27: the session never stays Pending: it leaves Pending for Resolved, for
\* Failed, or for Idle, the last only by a clear, so that without a clear it
\* reaches Resolved or Failed; and the evaluate key is enabled again and again.
C27_PendingEnds ==
    /\ [][(status = LOADING /\ status' # LOADING) =>
            \/ status' \in {RESULT, FAILED}
            \/ status' = IDLE /\ event'.name = "clear"]_vars
    /\ (status = LOADING) ~> (status \in {RESULT, FAILED} \/ event.name = "clear")
    /\ []<>(~IsEqualsDisabled(status, isRateLimited))

C27_PendingEndedInFailure ==
    /\ event.name = "llm_response" /\ event.fault
    /\ status = FAILED /\ requests = {}
    /\ ~IsEqualsDisabled(status, isRateLimited)

\* C22: a play call that passes the debounce plays the cache entry of its
\* path if there is one, else the entry of the generic key-press asset if
\* there is one, else nothing; and whatever it played, the handler that made
\* the call goes on as ever: a clear clears, a key is appended, and the
\* tokens and the result text are those the handler alone leaves.
C22_PlayNeverFails ==
    [][/\ \A i \in 1..Len(sounds') :
            sounds'[i].kind = "sfx" =>
                sounds'[i].heard =
                    IF sounds'[i].path \in AudioCache THEN sounds'[i].path
                    ELSE IF fallbackSound \in AudioCache THEN fallbackSound
                    ELSE NoAudio
       /\ event'.name = "clear" =>
            /\ Len(sounds') = IF sinceLastSound < DebounceWindow THEN 0 ELSE 1
            /\ status' = IDLE /\ expression' = <<>> /\ resultText' = ""
            /\ tokens' = tokens
       /\ (event'.name = "key" /\ status \in {IDLE, EDITING} /\ event'.key \in Keys) =>
            /\ Len(sounds') = IF sinceLastSound < DebounceWindow THEN 0 ELSE 1
            /\ status' = EDITING /\ expression' = Append(expression, event'.key)
            /\ resultText' = resultText /\ tokens' = tokens]_vars

\* C22 witness: a key pressed when neither its sound nor the generic one is
\* in the cache: nothing is played and the key is appended
C22_SilentKeyAppended ==
    /\ event.name = "key"
    /\ Len(sounds) = 1
    /\ sounds[1].path = ButtonSound("1")
    /\ sounds[1].heard = NoAudio
    /\ expression = <<"1", "1">>
    /\ status = EDITING

\* the load of path p has ended without an entry in the cache
Unloadable(p) == Promise(p) = "rejected"

\* the timeout of the load of path p has fired
TimedOut(p) == p \in DOMAIN preloads => preloads[p].timer = "done"

\* a step of the preload that ends the load of p in failure
FailsToLoad(p) == event'.name \in {"error", "timeout"} /\ event'.path = p

\* a step that assigns audioCache.value[p]
WritesCache(p) ==
    event'.name = "canplaythrough" /\ event'.path = p /\ event'.cached

\* no entry is removed or replaced: a step that assigns audioCache.value[p]
\* finds no entry for p and adds that one entry, and a step that assigns
\* nothing leaves the cache as it is.  Each path is loaded by one call of
\* preloadAudio, so an assignment over an entry would replace its Audio object.
EntriesKept ==
    /\ \A p \in FollowedPaths :
          WritesCache(p) => (p \notin AudioCache /\ AudioCache' = AudioCache \cup {p})
    /\ (\A p \in FollowedPaths : ~WritesCache(p)) => AudioCache' = AudioCache

\* what C23 says of every step, whatever the length of the timeout
PreloadSteps ==
    /\ EntriesKept
    /\ \A p \in FollowedPaths :
          /\ (event'.name = "canplaythrough" /\ event'.path = p
                /\ Promise(p) = "pending") => p \in AudioCache'
          /\ FailsToLoad(p) =>
                /\ AudioCache' = AudioCache
                /\ \A q \in FollowedPaths \ {p} :
                      /\ Promise(q)' = Promise(q)
                      /\ q \in DOMAIN preloads =>
                            (q \in DOMAIN preloads' /\ preloads'[q] = preloads[q])
          /\ p \in AudioCache => p \in AudioCache'
          /\ Unloadable(p) => (Unloadable(p)' /\ p \notin AudioCache')

\* C23 as stated, with a timeout of 5 time units: the preload always
\* finishes, a load that ends in time gives a cache entry, a failure touches
\* no other load, an entry is neither removed nor replaced, a failed load
\* gives no entry later, and a load that has given no entry when 5 time
\* units have passed never gives one.
C23_PreloadWithinFiveUnits ==
    /\ <>preloadFinished
    /\ [][PreloadSteps]_vars
    /\ [][\A p \in FollowedPaths :
            (sinceMounted > 5 /\ p \notin AudioCache) => p \notin AudioCache']_vars

\* C23, amended: the same with the timeout of preloadTimeout time units: a
\* load is ended by its timeout only when preloadTimeout has passed, and a
\* load that ended so gives no entry later; entries are neither removed nor
\* replaced, as stated.
C23_PreloadIndependent ==
    /\ <>preloadFinished
    /\ [][PreloadSteps]_vars
    /\ [][\A p \in FollowedPaths :
            /\ (event'.name = "timeout" /\ event'.path = p) =>
                  (sinceMounted >= preloadTimeout /\ p \notin AudioCache' \ AudioCache)
            /\ (TimedOut(p) /\ p \notin AudioCache) => p \notin AudioCache']_vars

\* C23 witness: the preload has finished with one asset buffered, one that
\* failed, and one that timed out and has just been buffered, too late
C23_FinishedWithFailures ==
    /\ preloadFinished
    /\ event = [name |-> "canplaythrough", path |-> fallbackSound, cached |-> FALSE]
    /\ AudioCache \cap FollowedPaths = {ButtonSound("1")}
    /\ DOMAIN preloads = {}

====
